---- MODULE Spec2Model ----
(***************************************************************************)
(* TradeMind backend: the live candle poller and its websocket sessions,   *)
(* the historical resolver with its cache, and the Redis sliding-window    *)
(* rate limiter.  Three specifications share this module; each leaves the  *)
(* variables of the other two subsystems unchanged.                        *)
(***************************************************************************)
EXTENDS Integers, FiniteSets, Sequences, TLC

VARIABLES
    redis_client,                       \* the shared Redis client, or None
    poller, sessions, polled, raceSub,  \* live path
    call, ncalls, cache,                \* historical resolver and its cache
    rl, now,                            \* rate-limit windows, the clock
    checks, nchecks, accepted,          \* concurrent _rate_limit_check calls
    published, streams                  \* broadcast channel, forwarding loops

liveVars == <<poller, sessions, polled, raceSub>>

resolverVars == <<call, ncalls, cache>>

rlVars == <<rl, now>>

checkVars == <<checks, nchecks, accepted>>

streamVars == <<published, streams>>

vars == <<redis_client, poller, sessions, polled, raceSub,
          call, ncalls, cache, rl, now, checks, nchecks, accepted,
          published, streams>>

\* a step of one subsystem leaves the others alone
OnlyLive == UNCHANGED <<resolverVars, rlVars, checkVars, streamVars>>
OnlyResolver == UNCHANGED <<liveVars, checkVars, streamVars>>
OnlyChecks == UNCHANGED <<liveVars, resolverVars, streamVars>>
OnlyStream == UNCHANGED <<redis_client, liveVars, resolverVars, rlVars, checkVars>>

----------------------------------------------------------------------------
(* Bounds *)

\* task slots: the live loop task plus tasks cancelled and not yet finished
MaxTasks == 2
\* concurrent websocket connections
MaxSessions == 2
\* candle timestamps a fetch may report: 0..MaxT
MaxT == 1

Tasks == 1..MaxTasks
Sessions == 1..MaxSessions
Ts == 0..MaxT

\* Optional[asyncio.Task] = None; dict.get(symbol) of a missing key
None == 0
NoTs == -1

----------------------------------------------------------------------------
(* Symbols and case normalisation *)

RawSymbols == {"aapl", "AAPL", "msft"}

\* str.upper() on the requested symbol
upper(s) == CASE s = "aapl" -> "AAPL"
              [] s = "msft" -> "MSFT"
              [] OTHER -> s

Symbols == {upper(s) : s \in RawSymbols}

----------------------------------------------------------------------------
(* CandlePoller: class-level state held in one record                      *)
(*   symbols_to_poll : _symbols_to_poll                                    *)
(*   last_ts         : _last_ts (NoTs = key absent)                        *)
(*   polling_task    : _polling_task (None or a task)                      *)
(*   tasks           : every _polling_loop task: its position, and per     *)
(*                     symbol the position of its _poll_symbol coroutine   *)

NoPolls == [s \in Symbols |-> "none"]
NoLatest == [s \in Symbols |-> NoTs]
IdleTask == [pc |-> "done", polls |-> NoPolls, latest |-> NoLatest]

\* asyncio.Task.done()
TaskDone(P, t) == P.tasks[t].pc = "done"

\* a task that still runs loop code: created, in gather, or sleeping
TaskLive(P, t) == P.tasks[t].pc \in {"created", "gather", "sleep"}

HasFreeTask(P) == \E t \in Tasks : P.tasks[t].pc = "done" /\ t # P.polling_task

FreeTask(P) == CHOOSE t \in Tasks :
                  /\ P.tasks[t].pc = "done" /\ t # P.polling_task
                  /\ \A u \in Tasks :
                        (P.tasks[u].pc = "done" /\ u # P.polling_task) => t <= u

\* asyncio.create_task(cls._polling_loop()): scheduled, runs at a later step
create_task(P) ==
    [P EXCEPT !.polling_task = FreeTask(P),
              !.tasks[FreeTask(P)] = [IdleTask EXCEPT !.pc = "created"]]

\* Task.cancel(): CancelledError is thrown into the task at its await; gather
\* cancels the _poll_symbol children, which do not catch BaseException
cancel(P, t) ==
    [P EXCEPT !.tasks[t] = [IdleTask EXCEPT !.pc = "cancelling"]]

\* start_polling without the test of _polling_task: every call creates a task
start_polling_always(P) ==
    IF HasFreeTask(P) THEN create_task(P) ELSE P

start_polling(P) ==
    IF P.polling_task = None \/ TaskDone(P, P.polling_task)
    THEN create_task(P)
    ELSE P

stop_polling(P) ==
    IF P.polling_task # None /\ ~TaskDone(P, P.polling_task)
    THEN [cancel(P, P.polling_task) EXCEPT !.polling_task = None]
    ELSE P

subscribe_no_start(P, symbol) ==
    IF upper(symbol) \notin P.symbols_to_poll
    THEN [P EXCEPT !.symbols_to_poll = @ \cup {upper(symbol)}]
    ELSE P

subscribe(P, symbol) ==
    IF upper(symbol) \notin P.symbols_to_poll
    THEN start_polling([P EXCEPT !.symbols_to_poll = @ \cup {upper(symbol)}])
    ELSE P

unsubscribe(P, symbol) ==
    [P EXCEPT !.symbols_to_poll = @ \ {upper(symbol)},
              !.last_ts[upper(symbol)] = NoTs]

----------------------------------------------------------------------------
(* History of the poll loop, kept for the drain/restart claims             *)
(*   polled[s] : a cycle has issued a fetch for s since s was last added   *)
(*               to the set; FALSE while s is not in the set               *)
(*   raceSub   : the latest symbol added to an EMPTY set that is still in  *)
(*               the set, with the position the loop task had when it was  *)
(*               added ("none": no task registered); NoRace otherwise      *)

NoRace == [symbol |-> "AAPL", at |-> "norace"]

LoopPc(P) == IF P.polling_task = None THEN "none" ELSE P.tasks[P.polling_task].pc

\* the history after a step that leaves the poller as Q: pol and rs for the
\* symbols still subscribed, forgotten for the others
Track(Q, pol, rs) ==
    /\ polled' = [s \in Symbols |-> s \in Q.symbols_to_poll /\ pol[s]]
    /\ raceSub' = IF rs.symbol \in Q.symbols_to_poll THEN rs ELSE NoRace

\* a subscribe call that takes the poller from P to Q
TrackSubscribe(P, Q, symbol) ==
    IF symbol \in P.symbols_to_poll
    THEN Track(Q, polled, raceSub)
    ELSE Track(Q, [polled EXCEPT ![symbol] = FALSE],
               IF P.symbols_to_poll = {}
               THEN [symbol |-> symbol, at |-> LoopPc(P)]
               ELSE NoRace)

----------------------------------------------------------------------------
(* _polling_loop and _poll_symbol *)

\* `while cls._symbols_to_poll:` reached on first run and after each sleep:
\* a non-empty set starts a cycle (one _poll_symbol per symbol of the
\* snapshot), an empty one falls through to stop_polling() and returns
LoopChecked_no_stop(P, t) ==
    IF P.symbols_to_poll # {}
    THEN [P EXCEPT !.tasks[t].pc = "gather",
                   !.tasks[t].polls = [s \in Symbols |->
                       IF s \in P.symbols_to_poll THEN "fetch" ELSE "none"]]
    ELSE [P EXCEPT !.tasks[t].pc = "sleep"]

LoopChecked(P, t) ==
    IF P.symbols_to_poll # {}
    THEN [P EXCEPT !.tasks[t].pc = "gather",
                   !.tasks[t].polls = [s \in Symbols |->
                       IF s \in P.symbols_to_poll THEN "fetch" ELSE "none"]]
    ELSE [stop_polling(P) EXCEPT !.tasks[t] = IdleTask]

LoopCheck(t) ==
    /\ poller.tasks[t].pc \in {"created", "sleep"}
    /\ poller' = LoopChecked(poller, t)
    /\ Track(poller', [s \in Symbols |-> TRUE], raceSub)
    /\ UNCHANGED <<sessions, redis_client>>
    /\ OnlyLive

\* get_recent_candles returns or raises; the body up to the publish await
\* "error" (exception), "empty" (no candles) or candles whose last has time t
FetchResults ==
    {[kind |-> "error", t |-> NoTs], [kind |-> "empty", t |-> NoTs]}
        \cup {[kind |-> "candles", t |-> x] : x \in Ts}

PollFetched_strict(P, t, s, r) ==
    IF r.kind = "error"
    THEN [unsubscribe(P, s) EXCEPT !.tasks[t].polls[s] = "none"]
    ELSE IF r.kind = "empty"
    THEN [P EXCEPT !.tasks[t].polls[s] = "none"]
    ELSE IF P.last_ts[s] = NoTs \/ r.t > P.last_ts[s]
    THEN IF redis_client
         THEN [P EXCEPT !.tasks[t].polls[s] = "pub", !.tasks[t].latest[s] = r.t]
         ELSE [P EXCEPT !.tasks[t].polls[s] = "none", !.last_ts[s] = r.t]
    ELSE [P EXCEPT !.tasks[t].polls[s] = "none"]

PollFetched_abort(P, t, s, r) ==
    IF r.kind = "error"
    THEN [unsubscribe(P, s) EXCEPT !.tasks[t] = IdleTask]
    ELSE IF r.kind = "empty"
    THEN [P EXCEPT !.tasks[t].polls[s] = "none"]
    ELSE IF P.last_ts[s] = NoTs \/ r.t >= P.last_ts[s]
    THEN IF redis_client
         THEN [P EXCEPT !.tasks[t].polls[s] = "pub", !.tasks[t].latest[s] = r.t]
         ELSE [P EXCEPT !.tasks[t].polls[s] = "none", !.last_ts[s] = r.t]
    ELSE [P EXCEPT !.tasks[t].polls[s] = "none"]

PollFetched(P, t, s, r) ==
    IF r.kind = "error"
    THEN [unsubscribe(P, s) EXCEPT !.tasks[t].polls[s] = "none"]
    ELSE IF r.kind = "empty"
    THEN [P EXCEPT !.tasks[t].polls[s] = "none"]
    ELSE IF P.last_ts[s] = NoTs \/ r.t >= P.last_ts[s]
    THEN IF redis_client
         THEN [P EXCEPT !.tasks[t].polls[s] = "pub", !.tasks[t].latest[s] = r.t]
         ELSE [P EXCEPT !.tasks[t].polls[s] = "none", !.last_ts[s] = r.t]
    ELSE [P EXCEPT !.tasks[t].polls[s] = "none"]

PollFetch(t, s, r) ==
    /\ poller.tasks[t].pc = "gather"
    /\ poller.tasks[t].polls[s] = "fetch"
    /\ poller' = PollFetched(poller, t, s, r)
    /\ Track(poller', polled, raceSub)
    /\ UNCHANGED <<sessions, redis_client>>
    /\ OnlyLive

\* redis_client.publish returns (ok) or raises (caught: unsubscribe)
PollPublished(P, t, s, ok) ==
    IF ok
    THEN [P EXCEPT !.tasks[t].polls[s] = "none",
                   !.tasks[t].latest[s] = NoTs,
                   !.last_ts[s] = P.tasks[t].latest[s]]
    ELSE [unsubscribe(P, s) EXCEPT !.tasks[t].polls[s] = "none",
                                   !.tasks[t].latest[s] = NoTs]

PollPublish(t, s, ok) ==
    /\ poller.tasks[t].pc = "gather"
    /\ poller.tasks[t].polls[s] = "pub"
    /\ poller' = PollPublished(poller, t, s, ok)
    /\ Track(poller', polled, raceSub)
    /\ UNCHANGED <<sessions, redis_client>>
    /\ OnlyLive

\* asyncio.gather returns once every _poll_symbol has; the loop then sleeps
GatherDone(t) ==
    /\ poller.tasks[t].pc = "gather"
    /\ \A s \in Symbols : poller.tasks[t].polls[s] = "none"
    /\ poller' = [poller EXCEPT !.tasks[t].pc = "sleep"]
    /\ UNCHANGED <<sessions, redis_client, polled, raceSub>>
    /\ OnlyLive

\* the CancelledError of an earlier cancel() ends the task
TaskCancelled(t) ==
    /\ poller.tasks[t].pc = "cancelling"
    /\ poller' = [poller EXCEPT !.tasks[t] = IdleTask]
    /\ UNCHANGED <<sessions, redis_client, polled, raceSub>>
    /\ OnlyLive

\* main.on_startup
StartPolling ==
    /\ HasFreeTask(poller)
    /\ poller' = start_polling(poller)
    /\ UNCHANGED <<sessions, redis_client, polled, raceSub>>
    /\ OnlyLive

\* main.on_shutdown
StopPolling ==
    /\ poller' = stop_polling(poller)
    /\ UNCHANGED <<sessions, redis_client, polled, raceSub>>
    /\ OnlyLive

----------------------------------------------------------------------------
(* stream_candles_to_websocket: one record per websocket connection        *)
(*   pc         : "idle" (no connection), "unavailable" (redis_client is   *)
(*                None: sending the error and closing), "listening" (the   *)
(*                forwarding loop), "cleanup" (the finally block, awaiting *)
(*                pubsub.unsubscribe/close), "ended" (coroutine returned)  *)
(*   symbol     : the upper-cased symbol of the connection                 *)
(*   registered : CandlePoller.subscribe was called for this session and   *)
(*                CandlePoller.unsubscribe has not been called since       *)

IdleSession == [pc |-> "idle", symbol |-> "AAPL", registered |-> FALSE]

\* the coroutine has returned; leaked: without CandlePoller.unsubscribe
EndedSession(leaked) == [pc |-> "ended", symbol |-> "AAPL", registered |-> leaked]

\* how the forwarding loop is left: the client closes, an Exception is caught
\* (pubsub.subscribe or get_message raising), CancelledError is caught
ExitPaths == {"client_close", "error", "cancelled"}

\* symbol.upper(); CandlePoller.subscribe(symbol); `if redis_client is None`
SessionOpen(i, raw) ==
    /\ sessions[i].pc = "idle"
    /\ HasFreeTask(poller)
    /\ poller' = subscribe(poller, upper(raw))
    /\ TrackSubscribe(poller, poller', upper(raw))
    /\ sessions' = [sessions EXCEPT ![i] =
          [pc |-> IF redis_client THEN "listening" ELSE "unavailable",
           symbol |-> upper(raw), registered |-> TRUE]]
    /\ UNCHANGED redis_client
    /\ OnlyLive

\* send_json({"error": ...}); close(code=1011); return
SessionUnavailable(i) ==
    /\ sessions[i].pc = "unavailable"
    /\ sessions' = [sessions EXCEPT ![i] = EndedSession(TRUE)]
    /\ UNCHANGED <<poller, redis_client, polled, raceSub>>
    /\ OnlyLive

\* the try block is left on one of the exit paths; control enters finally
SessionExit(i, how) ==
    /\ sessions[i].pc = "listening"
    /\ how \in ExitPaths
    /\ sessions' = [sessions EXCEPT ![i].pc = "cleanup"]
    /\ UNCHANGED <<poller, redis_client, polled, raceSub>>
    /\ OnlyLive

\* finally: `if pubsub:` await pubsub.unsubscribe(...); await pubsub.close();
\* then CandlePoller.unsubscribe(symbol).  released = FALSE: one of the two
\* awaits raises and the rest of the finally block is skipped
SessionCleanup(i, released) ==
    /\ sessions[i].pc = "cleanup"
    /\ IF released
       THEN /\ poller' = unsubscribe(poller, sessions[i].symbol)
            /\ sessions' = [sessions EXCEPT ![i] = EndedSession(FALSE)]
       ELSE /\ poller' = poller
            /\ sessions' = [sessions EXCEPT ![i] = EndedSession(TRUE)]
    /\ Track(poller', polled, raceSub)
    /\ UNCHANGED redis_client
    /\ OnlyLive

\* the slot serves a new connection
SessionReconnect(i) ==
    /\ sessions[i].pc = "ended"
    /\ sessions' = [sessions EXCEPT ![i] = IdleSession]
    /\ UNCHANGED <<poller, redis_client, polled, raceSub>>
    /\ OnlyLive

----------------------------------------------------------------------------
(* Time.  One unit is one reading of the millisecond clock; the window and *)
(* the TTL (both 60 s in the source) are scaled to a few units.            *)

\* the clock stops at MaxClock
MaxClock == 4
\* utils.py RATE_LIMIT_WINDOW_SECONDS * 1000 and CACHE_TTL_SECONDS, scaled;
\* longer than MaxRate, so that a window can hold more than MaxRate readings
MaxWindow == 3
\* utils.py RATE_LIMIT_PER_MINUTE, scaled
MaxRate == 2

RATE_LIMIT_WINDOW_MS == MaxWindow
CACHE_TTL_SECONDS == MaxWindow
RATE_LIMIT_PER_MINUTE == MaxRate

Providers == {"finnhub", "yahoo"}

----------------------------------------------------------------------------
(* _rate_limit_check: the Redis sorted set rl:<provider>.  A member is     *)
(* str(now_ms) with score now_ms, so the set holds one member per distinct *)
(* millisecond.                                                            *)

\* the MULTI/EXEC pipeline: zremrangebyscore(key, 0, window_start_ms),
\* zadd(key, {str(now_ms): now_ms}); zcard is the size of the result
rl_pipeline(log, now_ms) ==
    {x \in log : x > now_ms - RATE_LIMIT_WINDOW_MS} \cup {now_ms}

\* zrem(key, now_ms)
rl_revert(log, now_ms) == log \ {now_ms}

rl_limited(count) == count > RATE_LIMIT_PER_MINUTE

\* rate_limit_check without `if redis_client is None: raise RateLimitError`
rate_limit_check_no_guard(log, now_ms) ==
    IF rl_limited(Cardinality(rl_pipeline(log, now_ms)))
    THEN [log |-> rl_revert(rl_pipeline(log, now_ms), now_ms), limited |-> TRUE]
    ELSE [log |-> rl_pipeline(log, now_ms), limited |-> FALSE]

\* a whole check by a caller no other check interleaves with: the log it
\* leaves, and whether it raised RateLimitError
rate_limit_check(log, now_ms) ==
    IF redis_client = FALSE
    THEN [log |-> log, limited |-> TRUE]
    ELSE IF rl_limited(Cardinality(rl_pipeline(log, now_ms)))
    THEN [log |-> rl_revert(rl_pipeline(log, now_ms), now_ms), limited |-> TRUE]
    ELSE [log |-> rl_pipeline(log, now_ms), limited |-> FALSE]

(* Concurrent checks: callers in this and in other processes.  A check     *)
(* reads the clock, awaits the pipeline, and when the count is over the    *)
(* limit awaits the zrem: other checks run at both awaits.                 *)
(*   pc     : "idle", "exec" (clock read, pipeline not yet run), "revert"  *)
(*            (count over the limit, zrem not yet run)                     *)
(*   added  : the zadd of the pipeline added a member (the member was not  *)
(*            in the set)                                                  *)
(*   prior  : the accepted checks whose timestamp lay in the trailing      *)
(*            window of this check when its pipeline ran                   *)
(*   out    : how the last check of the caller ended: "ok" or "limited"    *)
(* accepted[p][x] counts the checks of provider p accepted with timestamp  *)
(* x.                                                                      *)

\* concurrent callers
MaxCheckers == 3
\* checks in one behaviour
MaxChecks == 4

Checkers == 1..MaxCheckers
Clock == 0..MaxClock

IdleCheck == [pc |-> "idle", provider |-> "finnhub", now_ms |-> 0,
              added |-> FALSE, prior |-> 0, out |-> "none"]

RECURSIVE SumOver(_, _)
SumOver(f, S) ==
    IF S = {} THEN 0
    ELSE LET x == CHOOSE y \in S : TRUE IN f[x] + SumOver(f, S \ {x})

\* the accepted checks of a provider with a timestamp in (now_ms - window, now_ms]
AcceptedInWindow(acc, now_ms) ==
    SumOver(acc, {x \in Clock : x > now_ms - RATE_LIMIT_WINDOW_MS /\ x <= now_ms})

\* `if redis_client is None: raise`; now_ms = int(time.time() * 1000)
RLBegin(k, provider) ==
    /\ checks[k].pc = "idle"
    /\ nchecks < MaxChecks
    /\ nchecks' = nchecks + 1
    /\ checks' = [checks EXCEPT ![k] =
          IF redis_client
          THEN [IdleCheck EXCEPT !.pc = "exec", !.provider = provider, !.now_ms = now]
          ELSE [IdleCheck EXCEPT !.out = "limited"]]
    /\ UNCHANGED <<rl, now, accepted, redis_client>>
    /\ OnlyChecks

\* await pipe.execute(); `if count > RATE_LIMIT_PER_MINUTE`
RLExec(k) ==
    /\ checks[k].pc = "exec"
    /\ LET p == checks[k].provider
           t == checks[k].now_ms
           log == rl_pipeline(rl[p], t)
           prior == AcceptedInWindow(accepted[p], t)
       IN  /\ rl' = [rl EXCEPT ![p] = log]
           /\ IF rl_limited(Cardinality(log))
              THEN /\ checks' = [checks EXCEPT ![k].pc = "revert",
                                               ![k].added = t \notin rl[p],
                                               ![k].prior = prior]
                   /\ UNCHANGED accepted
              ELSE /\ checks' = [checks EXCEPT ![k] =
                         [IdleCheck EXCEPT !.out = "ok", !.provider = p,
                                           !.now_ms = t, !.prior = prior]]
                   /\ accepted' = [accepted EXCEPT ![p][t] = @ + 1]
    /\ UNCHANGED <<now, nchecks, redis_client>>
    /\ OnlyChecks

\* await redis_client.zrem(key, now_ms); raise RateLimitError
RLRevert(k) ==
    /\ checks[k].pc = "revert"
    /\ rl' = [rl EXCEPT ![checks[k].provider] = rl_revert(@, checks[k].now_ms)]
    /\ checks' = [checks EXCEPT ![k].pc = "idle", ![k].out = "limited"]
    /\ UNCHANGED <<now, nchecks, accepted, redis_client>>
    /\ OnlyChecks

\* the millisecond clock advances
RLTick ==
    /\ now < MaxClock
    /\ now' = now + 1
    /\ UNCHANGED <<rl, checks, nchecks, accepted, redis_client>>
    /\ OnlyChecks

----------------------------------------------------------------------------
(* Result cache: Redis keys candle:<fingerprint> with a TTL.  An entry is  *)
(* [key, val, exp]; Redis drops it when the clock reaches exp.             *)

\* a candle list: d names the fetched data (0: the empty list), ta the
\* indicator columns its candles carry
Candles(d, ta) == [d |-> d, ta |-> ta]

\* f"candle:{':'.join(map(str, key))}"
cache_key(key) == <<"candle">> \o key

\* json.loads, then Candle(**item): the Candle model has the fields t, o, h,
\* l, c, v only, so the indicator columns of a stored list are dropped
cache_decode(val) == Candles(val.d, {})

cache_get(C, key, t) ==
    IF redis_client = FALSE THEN {}
    ELSE {cache_decode(e.val) : e \in {x \in C : x.key = cache_key(key) /\ x.exp > t}}

\* redis_client.set(key_str, json.dumps(model_dump), ex=CACHE_TTL_SECONDS)
cache_set(C, key, val, t) ==
    IF redis_client = FALSE THEN C
    ELSE {x \in C : x.key # cache_key(key)}
            \cup {[key |-> cache_key(key), val |-> val, exp |-> t + CACHE_TTL_SECONDS]}

cache_expire(C, t) == {x \in C : x.exp > t}

----------------------------------------------------------------------------
(* get_historical_candles *)

ONE_DAY_SECONDS == 60 * 60 * 24
THIRTY_DAYS_SECONDS == ONE_DAY_SECONDS * 30
ONE_YEAR_SECONDS == ONE_DAY_SECONDS * 365
INTRADAY_RESOLUTION == {"1", "5", "15", "30", "60"}

\* the arguments the calls are drawn from
SymbolArgs == {"aapl", "AAPL"}
ResolutionArgs == {"1", "D"}
FromArgs == {0}
RangeArgs == {THIRTY_DAYS_SECONDS, THIRTY_DAYS_SECONDS + 1, ONE_YEAR_SECONDS + 1}
ProviderArgs == {"auto", "Finnhub", "yahoo", "bogus"}
IndicatorArgs == {<< >>, <<"sma", "rsi">>, <<"rsi", "sma">>}

\* the arguments of the calls that exercise guardrails and selection
WideResolutionArgs == {"1", "5", "15", "30", "60", "D", "W", "M"}
WideFromArgs == {0, 1}
WideRangeArgs == {1, THIRTY_DAYS_SECONDS, THIRTY_DAYS_SECONDS + 1,
                  ONE_YEAR_SECONDS, ONE_YEAR_SECONDS + 1}
WideProviderArgs == {"auto", "AUTO", "", "finnhub", "Finnhub", "yahoo", "bogus"}

\* calls of get_historical_candles in one behaviour
MaxCalls == 2
\* distinct fetch results
MaxData == 1
Data == 1..MaxData

\* str.lower() on the provider argument
lower(s) == CASE s = "Finnhub" -> "finnhub"
              [] s = "AUTO" -> "auto"
              [] OTHER -> s

\* `provider or "auto"`: an empty preference counts as auto
or_auto(provider) == IF provider = "" THEN "auto" ELSE provider

\* sorted(indicators): the order of Python's string comparison
StrRank(x) == CASE x = "rsi" -> 1 [] x = "sma" -> 2 [] OTHER -> 0

sorted(ind) == SortSeq(ind, LAMBDA x, y : StrRank(x) < StrRank(y))

Max(x, y) == IF x >= y THEN x ELSE y

guardrail_ge(resolution, provider_norm, range_seconds) ==
    IF resolution = "1"
    THEN IF provider_norm \in {"auto", "yahoo"} /\ range_seconds >= THIRTY_DAYS_SECONDS
         THEN "range_30d"
         ELSE IF provider_norm \in {"auto", "finnhub"}
                    /\ range_seconds > ONE_YEAR_SECONDS
         THEN "range_1y"
         ELSE "ok"
    ELSE "ok"

\* the guardrail block with the 30-day limit tested for provider yahoo only
guardrail_yahoo_only(resolution, provider_norm, range_seconds) ==
    IF resolution = "1"
    THEN IF provider_norm = "yahoo" /\ range_seconds > THIRTY_DAYS_SECONDS
         THEN "range_30d"
         ELSE IF provider_norm \in {"auto", "finnhub"}
                    /\ range_seconds > ONE_YEAR_SECONDS
         THEN "range_1y"
         ELSE "ok"
    ELSE "ok"

\* the guardrail block: "ok" or the ValueError it raises
guardrail(resolution, provider_norm, range_seconds) ==
    IF resolution = "1"
    THEN IF provider_norm \in {"auto", "yahoo"} /\ range_seconds > THIRTY_DAYS_SECONDS
         THEN "range_30d"
         ELSE IF provider_norm \in {"auto", "finnhub"}
                    /\ range_seconds > ONE_YEAR_SECONDS
         THEN "range_1y"
         ELSE "ok"
    ELSE "ok"

select_provider_lt(resolution, provider_norm, range_seconds) ==
    IF provider_norm = "auto"
    THEN IF resolution \in INTRADAY_RESOLUTION /\ range_seconds < ONE_YEAR_SECONDS
         THEN "finnhub" ELSE "yahoo"
    ELSE IF provider_norm \in {"finnhub", "yahoo"}
    THEN provider_norm
    ELSE "invalid"

\* provider selection: the provider, or "invalid" (ValueError)
select_provider(resolution, provider_norm, range_seconds) ==
    IF provider_norm = "auto"
    THEN IF resolution \in INTRADAY_RESOLUTION /\ range_seconds <= ONE_YEAR_SECONDS
         THEN "finnhub" ELSE "yahoo"
    ELSE IF provider_norm \in {"finnhub", "yahoo"}
    THEN provider_norm
    ELSE "invalid"

\* (symbol_upper, resolution, from_ts, to_ts, provider_to_use,
\*  tuple(sorted(indicators)))
fingerprint(c) ==
    <<c.symbol_upper, c.resolution, c.from_ts, c.to_ts, c.provider_to_use,
      sorted(c.indicators)>>

\* calculate_ta_indicators(raw, indicators) when indicators are requested,
\* else CandleWithTA(**c.model_dump()) per candle
augment(d, indicators) ==
    Candles(d, {indicators[k] : k \in 1..Len(indicators)})

NoCandles == Candles(0, {})

\* what a call ends with: a returned list or a raised exception
NoOutcome == [kind |-> "none", msg |-> "none", val |-> NoCandles]
Returned(val) == [kind |-> "ok", msg |-> "none", val |-> val]
Raised(kind, msg) == [kind |-> kind, msg |-> msg, val |-> NoCandles]

(* One call in flight at a time.                                           *)
(*   pc       : "idle", "cache_get", "rate_limit", "fetch",                *)
(*              "fb_rate_limit", "fb_fetch", "store", "done"               *)
(*   fetched  : the provider fetches of the call, in order, each with its  *)
(*              result                                                     *)
(*   checked  : the rate-limit checks of the call, in order                *)
(*   wrote    : the fingerprints the call stored in the cache              *)
(*   raw      : raw_candles                                                *)
(*   provider : the preference as passed; provider_norm: normalised        *)
(*   started  : the clock when the call was entered                        *)
(*   prev     : when the call before this one had the same normalised      *)
(*              arguments: how that call ended, how many fetches it made   *)
(*              and when it was entered                                    *)
NoPrev == [known |-> FALSE, out |-> NoOutcome, nfetch |-> 0, at |-> 0]

IdleCall ==
    [pc |-> "idle", symbol_upper |-> "AAPL", resolution |-> "1",
     from_ts |-> 0, to_ts |-> 0, provider |-> "auto", provider_norm |-> "auto",
     provider_to_use |-> "none", indicators |-> << >>, raw |-> 0,
     fetched |-> << >>, checked |-> << >>, wrote |-> {}, hit |-> FALSE,
     out |-> NoOutcome, started |-> 0, prev |-> NoPrev]

\* two calls with the same arguments up to the letter case of the symbol and
\* of the preference and the order of the indicator names
SameQuery(c, d) ==
    /\ c.symbol_upper = d.symbol_upper /\ c.resolution = d.resolution
    /\ c.from_ts = d.from_ts /\ c.to_ts = d.to_ts
    /\ c.provider_norm = d.provider_norm
    /\ sorted(c.indicators) = sorted(d.indicators)

\* what call c keeps of the finished call old that came right before it
prior_call(old, c) ==
    IF old.pc = "done" /\ SameQuery(old, c)
    THEN [known |-> TRUE, out |-> old.out, nfetch |-> Len(old.fetched),
          at |-> old.started]
    ELSE NoPrev

Finish(c, out) == [c EXCEPT !.pc = "done", !.out = out]

\* resolve_enter with the guardrails and the selection error placed after
\* the rate-limit check: the errors end a call that has a check on record
resolve_enter_checked_first(symbol, resolution, from_ts, to_ts, provider, indicators) ==
    LET provider_norm == lower(or_auto(provider))
        range_seconds == Max(to_ts - from_ts, 0)
        c == [IdleCall EXCEPT !.symbol_upper = upper(symbol),
                              !.resolution = resolution,
                              !.from_ts = from_ts, !.to_ts = to_ts,
                              !.provider = provider,
                              !.provider_norm = provider_norm,
                              !.indicators = indicators,
                              !.checked = <<[p |-> "yahoo", ok |-> TRUE]>>]
    IN  IF guardrail(resolution, provider_norm, range_seconds) # "ok"
        THEN Finish(c, Raised("ValueError",
                              guardrail(resolution, provider_norm, range_seconds)))
        ELSE IF select_provider(resolution, provider_norm, range_seconds) = "invalid"
        THEN Finish(c, Raised("ValueError", "invalid_provider"))
        ELSE [c EXCEPT !.pc = "cache_get", !.checked = << >>,
                       !.provider_to_use =
                           select_provider(resolution, provider_norm, range_seconds)]

\* entry up to the cache lookup: normalisation, guardrails, selection
resolve_enter(symbol, resolution, from_ts, to_ts, provider, indicators) ==
    LET provider_norm == lower(or_auto(provider))
        range_seconds == Max(to_ts - from_ts, 0)
        c == [IdleCall EXCEPT !.symbol_upper = upper(symbol),
                              !.resolution = resolution,
                              !.from_ts = from_ts, !.to_ts = to_ts,
                              !.provider = provider,
                              !.provider_norm = provider_norm,
                              !.indicators = indicators]
    IN  IF guardrail(resolution, provider_norm, range_seconds) # "ok"
        THEN Finish(c, Raised("ValueError",
                              guardrail(resolution, provider_norm, range_seconds)))
        ELSE IF select_provider(resolution, provider_norm, range_seconds) = "invalid"
        THEN Finish(c, Raised("ValueError", "invalid_provider"))
        ELSE [c EXCEPT !.pc = "cache_get",
                       !.provider_to_use =
                           select_provider(resolution, provider_norm, range_seconds)]

ResolveCall(symbol, resolution, from_ts, to_ts, provider, indicators) ==
    /\ call.pc \in {"idle", "done"}
    /\ ncalls < MaxCalls
    /\ ncalls' = ncalls + 1
    /\ LET c == resolve_enter(symbol, resolution, from_ts, to_ts, provider, indicators)
       IN  call' = [c EXCEPT !.started = now, !.prev = prior_call(call, c)]
    /\ UNCHANGED <<cache, rl, now, redis_client>>
    /\ OnlyResolver

resolve_cache_get_checked(c, C, t) ==
    IF cache_get(C, fingerprint(c), t) # {}
    THEN [Finish(c, Returned(CHOOSE v \in cache_get(C, fingerprint(c), t) : TRUE))
            EXCEPT !.hit = TRUE,
                   !.checked = Append(@, [p |-> c.provider_to_use, ok |-> TRUE])]
    ELSE [c EXCEPT !.pc = "rate_limit"]

\* cached = await _cache_get(cache_key); `if cached is not None: return cached`
resolve_cache_get(c, C, t) ==
    IF cache_get(C, fingerprint(c), t) # {}
    THEN [Finish(c, Returned(CHOOSE v \in cache_get(C, fingerprint(c), t) : TRUE))
            EXCEPT !.hit = TRUE]
    ELSE [c EXCEPT !.pc = "rate_limit"]

ResolveCacheGet ==
    /\ call.pc = "cache_get"
    /\ call' = resolve_cache_get(call, cache, now)
    /\ UNCHANGED <<ncalls, cache, rl, now, redis_client>>
    /\ OnlyResolver

\* await _rate_limit_check(provider_to_use); RateLimitError is re-raised
resolve_rate_limit(c, limited) ==
    IF limited
    THEN Finish([c EXCEPT !.checked = Append(@, [p |-> c.provider_to_use, ok |-> FALSE])],
                Raised("RateLimitError", c.provider_to_use))
    ELSE [c EXCEPT !.pc = "fetch",
                   !.checked = Append(@, [p |-> c.provider_to_use, ok |-> TRUE])]

ResolveRateLimit ==
    /\ call.pc = "rate_limit"
    /\ LET r == rate_limit_check(rl[call.provider_to_use], now)
       IN  /\ rl' = [rl EXCEPT ![call.provider_to_use] = r.log]
           /\ call' = resolve_rate_limit(call, r.limited)
    /\ UNCHANGED <<ncalls, cache, now, redis_client>>
    /\ OnlyResolver

\* what a provider fetch does: candles d, no rows, the HTTPStatusError of
\* raise_for_status, or any other exception
FetchOutcomes ==
    {[kind |-> "ok", d |-> d] : d \in Data}
        \cup {[kind |-> k, d |-> 0] : k \in {"empty", "http_error", "exception"}}

\* _fetch_yahoo_candles raises no HTTPStatusError of its own
YahooOutcomes == {r \in FetchOutcomes : r.kind # "http_error"}

\* after the fetch: `if not raw_candles: return []`, else on to TA and store
resolve_fetched(c, d) ==
    IF d = 0 THEN Finish(c, Returned(NoCandles))
    ELSE [c EXCEPT !.pc = "store", !.raw = d]

\* resolve_fetch without the test `if provider_norm == "auto"`: every HTTP
\* error of Finnhub goes on to the Yahoo fallback
resolve_fetch_fallback_always(c, r) ==
    LET c1 == [c EXCEPT !.fetched = Append(@, [p |-> c.provider_to_use, r |-> r.kind])]
    IN  IF c.provider_to_use = "finnhub"
        THEN IF r.kind = "http_error"
             THEN [c1 EXCEPT !.pc = "fb_rate_limit"]
             ELSE IF r.kind = "exception"
             THEN Finish(c1, Raised("Exception", "finnhub"))
             ELSE resolve_fetched(c1, r.d)
        ELSE IF r.kind = "exception"
             THEN Finish(c1, Raised("ValueError", "yahoo_error"))
             ELSE resolve_fetched(c1, r.d)

\* the fetch of the selected provider and its except clauses
resolve_fetch(c, r) ==
    LET c1 == [c EXCEPT !.fetched = Append(@, [p |-> c.provider_to_use, r |-> r.kind])]
    IN  IF c.provider_to_use = "finnhub"
        THEN IF r.kind = "http_error"
             THEN IF c.provider_norm = "auto"
                  THEN [c1 EXCEPT !.pc = "fb_rate_limit"]
                  ELSE Finish(c1, Raised("ValueError", "finnhub_http"))
             ELSE IF r.kind = "exception"
             THEN Finish(c1, Raised("Exception", "finnhub"))
             ELSE resolve_fetched(c1, r.d)
        ELSE IF r.kind = "exception"
             THEN Finish(c1, Raised("ValueError", "yahoo_error"))
             ELSE resolve_fetched(c1, r.d)

ResolveFetch(r) ==
    /\ call.pc = "fetch"
    /\ call.provider_to_use = "finnhub" \/ r \in YahooOutcomes
    /\ call' = resolve_fetch(call, r)
    /\ UNCHANGED <<ncalls, cache, rl, now, redis_client>>
    /\ OnlyResolver

\* the fallback: await _rate_limit_check("yahoo") inside `try ... except
\* Exception as e2`, which turns RateLimitError into the combined ValueError
resolve_fb_rate_limit(c, limited) ==
    IF limited
    THEN Finish([c EXCEPT !.checked = Append(@, [p |-> "yahoo", ok |-> FALSE])],
                Raised("ValueError", "finnhub_http+yahoo_fallback_failed"))
    ELSE [c EXCEPT !.pc = "fb_fetch",
                   !.checked = Append(@, [p |-> "yahoo", ok |-> TRUE])]

ResolveFallbackRateLimit ==
    /\ call.pc = "fb_rate_limit"
    /\ LET r == rate_limit_check(rl["yahoo"], now)
       IN  /\ rl' = [rl EXCEPT !["yahoo"] = r.log]
           /\ call' = resolve_fb_rate_limit(call, r.limited)
    /\ UNCHANGED <<ncalls, cache, now, redis_client>>
    /\ OnlyResolver

\* raw_candles = await _fetch_yahoo_candles(...); provider_to_use = "yahoo";
\* a failure raises the combined ValueError.  After a fallback that
\* succeeded, control leaves the inner try and reaches the statement that
\* ends the except block: raise ValueError(f"Finnhub HTTP {status} ...")
resolve_fb_fetch(c, r) ==
    LET c1 == [c EXCEPT !.fetched = Append(@, [p |-> "yahoo", r |-> r.kind])]
    IN  IF r.kind = "exception"
        THEN Finish(c1, Raised("ValueError", "finnhub_http+yahoo_fallback_failed"))
        ELSE Finish([c1 EXCEPT !.raw = r.d, !.provider_to_use = "yahoo"],
                    Raised("ValueError", "finnhub_http"))

ResolveFallbackFetch(r) ==
    /\ call.pc = "fb_fetch"
    /\ r \in YahooOutcomes
    /\ call' = resolve_fb_fetch(call, r)
    /\ UNCHANGED <<ncalls, cache, rl, now, redis_client>>
    /\ OnlyResolver

\* TA augmentation, then await _cache_set(final_cache_key, ta_candles)
resolve_store(c) ==
    [Finish(c, Returned(augment(c.raw, c.indicators)))
        EXCEPT !.wrote = @ \cup {fingerprint(c)}]

ResolveStore ==
    /\ call.pc = "store"
    /\ call' = resolve_store(call)
    /\ cache' = cache_set(cache, fingerprint(call), augment(call.raw, call.indicators), now)
    /\ UNCHANGED <<ncalls, rl, now, redis_client>>
    /\ OnlyResolver

\* time passes; Redis drops the entries whose TTL has run out
Tick ==
    /\ now < MaxClock
    /\ now' = now + 1
    /\ cache' = cache_expire(cache, now + 1)
    /\ UNCHANGED <<call, ncalls, rl, redis_client>>
    /\ OnlyResolver

\* candles_history: the status the route answers with.  ValueError is 400,
\* an empty list 404; the route has no handler for any other exception
\* than HTTPStatusError, so the framework answers 500
candles_history(out) ==
    IF out.kind = "ok" THEN (IF out.val.d = 0 THEN 404 ELSE 200)
    ELSE IF out.kind = "ValueError" THEN 400
    ELSE 500

----------------------------------------------------------------------------
(* The broadcast channel and the forwarding loop of a session              *)
(*   published : the messages the poller has published, in order           *)
(*   streams   : per connection, the forwarding loop of                    *)
(*               stream_candles_to_websocket                               *)
(*     pc     : "idle", "listening" (pubsub subscribed), "closed"          *)
(*     symbol : symbol.upper()                                             *)
(*     inbox  : what Redis has delivered to the pubsub connection and      *)
(*              get_message has not returned yet: [idx, data], idx the     *)
(*              position of the message in published                       *)
(*     sent   : what send_json has written to the connection: [idx, data]  *)

\* messages published in one behaviour
MaxMsgs == 3

\* the message _poll_symbol builds for the latest candle of a symbol
candle_message(s, t) == [type |-> "candle", symbol |-> s, t |-> t]

\* json.dumps(message) at the publisher
json_dumps(m) == <<m.type, m.symbol, m.t>>

\* json.loads(message['data'].decode('utf-8')) at the session
json_loads(w) == [type |-> w[1], symbol |-> w[2], t |-> w[3]]

IdleStream == [pc |-> "idle", symbol |-> "AAPL", inbox |-> << >>, sent |-> << >>]

\* `if data.get("symbol") == symbol`
stream_matches_any(symbol, data) == TRUE

stream_matches(symbol, data) == data.symbol = symbol

\* symbol = symbol.upper(); past `if redis_client is None`:
\* pubsub = redis_client.pubsub(); await pubsub.subscribe(REDIS_CHANNEL)
StreamOpen(i, raw) ==
    /\ redis_client
    /\ streams[i].pc = "idle"
    /\ streams' = [streams EXCEPT ![i] =
          [IdleStream EXCEPT !.pc = "listening", !.symbol = upper(raw)]]
    /\ UNCHANGED published
    /\ OnlyStream

\* `if redis_client:` await redis_client.publish(REDIS_CHANNEL,
\* json.dumps(message)): Redis hands the payload to every subscribed pubsub
\* connection, in publish order
StreamPublish(s, t) ==
    /\ redis_client
    /\ Len(published) < MaxMsgs
    /\ published' = Append(published, candle_message(s, t))
    /\ streams' = [i \in Sessions |->
          IF streams[i].pc = "listening"
          THEN [streams[i] EXCEPT !.inbox =
                   Append(@, [idx |-> Len(published) + 1,
                              data |-> json_dumps(candle_message(s, t))])]
          ELSE streams[i]]
    /\ OnlyStream

\* one turn of the loop with a message: get_message returns the oldest
\* undelivered payload; a matching one is passed to send_json, which writes
\* it (sent) or raises (caught and printed: the message is dropped)
stream_forward(st, sent) ==
    LET m == Head(st.inbox)
        data == json_loads(m.data)
    IN  IF stream_matches(st.symbol, data) /\ sent
        THEN [st EXCEPT !.inbox = Tail(@),
                        !.sent = Append(@, [idx |-> m.idx, data |-> data])]
        ELSE [st EXCEPT !.inbox = Tail(@)]

StreamForward(i, sent) ==
    /\ streams[i].pc = "listening"
    /\ streams[i].inbox # << >>
    /\ streams' = [streams EXCEPT ![i] = stream_forward(streams[i], sent)]
    /\ UNCHANGED published
    /\ OnlyStream

\* the loop is left (client closed, error, cancellation): the finally block
\* unsubscribes and closes the pubsub connection
StreamClose(i) ==
    /\ streams[i].pc = "listening"
    /\ streams' = [streams EXCEPT ![i].pc = "closed", ![i].inbox = << >>]
    /\ UNCHANGED published
    /\ OnlyStream

----------------------------------------------------------------------------
(* Specifications *)

InitLive ==
    /\ poller = [symbols_to_poll |-> {},
                 last_ts |-> [s \in Symbols |-> NoTs],
                 polling_task |-> None,
                 tasks |-> [t \in Tasks |-> IdleTask]]
    /\ sessions = [i \in Sessions |-> IdleSession]
    /\ polled = [s \in Symbols |-> FALSE]
    /\ raceSub = NoRace

InitResolver ==
    /\ call = IdleCall
    /\ ncalls = 0
    /\ cache = {}

InitRateLimit ==
    /\ rl = [p \in Providers |-> {}]
    /\ now = 0

InitChecks ==
    /\ checks = [k \in Checkers |-> IdleCheck]
    /\ nchecks = 0
    /\ accepted = [p \in Providers |-> [x \in Clock |-> 0]]

InitStream ==
    /\ published = << >>
    /\ streams = [i \in Sessions |-> IdleStream]

Init ==
    /\ redis_client \in BOOLEAN
    /\ InitLive /\ InitResolver /\ InitRateLimit /\ InitChecks /\ InitStream

LoopStep ==
    \E t \in Tasks :
        \/ LoopCheck(t)
        \/ \E s \in Symbols, r \in FetchResults : PollFetch(t, s, r)
        \/ \E s \in Symbols, ok \in BOOLEAN : PollPublish(t, s, ok)
        \/ GatherDone(t)

SessionStep ==
    \E i \in Sessions :
        \/ \E raw \in RawSymbols : SessionOpen(i, raw)
        \/ SessionUnavailable(i)
        \/ \E how \in ExitPaths : SessionExit(i, how)
        \/ \E released \in BOOLEAN : SessionCleanup(i, released)
        \/ SessionReconnect(i)

\* the service while it runs: no shutdown request
NextLive == LoopStep \/ SessionStep \/ StartPolling

\* the service with its shutdown hook: a cancelled loop task ends
NextPoller == NextLive \/ StopPolling \/ \E t \in Tasks : TaskCancelled(t)

SpecPoller == Init /\ [][NextPoller]_vars

\* the event loop runs every ready task: a fetch returns or raises (the HTTP
\* client has a timeout), a publish returns or raises, a sleep ends
FairLoop == \A t \in Tasks :
    /\ WF_vars(LoopCheck(t))
    /\ WF_vars(\E s \in Symbols, r \in FetchResults : PollFetch(t, s, r))
    /\ WF_vars(\E s \in Symbols, ok \in BOOLEAN : PollPublish(t, s, ok))
    /\ WF_vars(GatherDone(t))

SpecLive == Init /\ [][NextLive]_vars /\ FairLoop

ResolveStep ==
    \/ \E symbol \in SymbolArgs, resolution \in ResolutionArgs,
          from_ts \in FromArgs, range \in RangeArgs,
          provider \in ProviderArgs, indicators \in IndicatorArgs :
            ResolveCall(symbol, resolution, from_ts, from_ts + range,
                        provider, indicators)
    \/ ResolveCacheGet
    \/ ResolveRateLimit
    \/ \E r \in FetchOutcomes : ResolveFetch(r)
    \/ ResolveFallbackRateLimit
    \/ \E r \in FetchOutcomes : ResolveFallbackFetch(r)
    \/ ResolveStore

NextResolver == ResolveStep \/ Tick

\* the resolver starts on a limiter that other requests may have filled: one
\* accepted check per clock reading so far
InitTraffic ==
    /\ redis_client \in BOOLEAN
    /\ InitLive /\ InitResolver /\ InitChecks /\ InitStream
    /\ now = RATE_LIMIT_PER_MINUTE
    /\ rl \in [Providers -> {{}, 0..(RATE_LIMIT_PER_MINUTE - 1)}]

SpecResolver == InitTraffic /\ [][NextResolver]_vars

\* calls over every resolution and the ranges around both ceilings, up to
\* the cache lookup
NextEntry ==
    \E symbol \in SymbolArgs, resolution \in WideResolutionArgs,
       from_ts \in WideFromArgs, range \in WideRangeArgs,
       provider \in WideProviderArgs :
         ResolveCall(symbol, resolution, from_ts, from_ts + range, provider, << >>)

SpecEntry == Init /\ [][NextEntry]_vars

CheckStep ==
    \E k \in Checkers :
        \/ \E provider \in Providers : RLBegin(k, provider)
        \/ RLExec(k)
        \/ RLRevert(k)

NextRateLimit == CheckStep \/ RLTick

SpecRateLimit == Init /\ [][NextRateLimit]_vars

\* checks that do not overlap: a check starts when no other is in flight
NoCheckInFlight == \A k \in Checkers : checks[k].pc = "idle"

NextRateLimitSeq ==
    \/ \E k \in Checkers, provider \in Providers :
          NoCheckInFlight /\ RLBegin(k, provider)
    \/ \E k \in Checkers : RLExec(k)
    \/ \E k \in Checkers : RLRevert(k)
    \/ RLTick

SpecRateLimitSeq == Init /\ [][NextRateLimitSeq]_vars

StreamStep ==
    \/ \E i \in Sessions, raw \in RawSymbols : StreamOpen(i, raw)
    \/ \E s \in Symbols, t \in Ts : StreamPublish(s, t)
    \/ \E i \in Sessions, sent \in BOOLEAN : StreamForward(i, sent)
    \/ \E i \in Sessions : StreamClose(i)

\* the broadcast channel with its publisher and the sessions' loops
SpecStream == Init /\ [][StreamStep]_vars

----------------------------------------------------------------------------
(* Claims about the live path *)

\* a session whose coroutine is between subscribe and the end of finally
SessionLive(i) == sessions[i].pc \in {"listening", "cleanup"}

\* C1: subscriptions are counted per symbol: while another live session is
\* registered on the same symbol, the unsubscribe of an ending session leaves
\* the symbol in the Subscription Set
C1_SharedSubscription ==
    [][\A i \in Sessions :
          ( /\ sessions[i].pc = "cleanup" /\ sessions'[i].pc = "ended"
            /\ sessions[i].symbol \in poller.symbols_to_poll
            /\ \E j \in Sessions \ {i} :
                  /\ SessionLive(j) /\ sessions[j].registered
                  /\ sessions[j].symbol = sessions[i].symbol )
          => sessions[i].symbol \in poller'.symbols_to_poll]_vars

\* C2: every session that registered its symbol has deregistered it by the
\* time it ends, on every exit path
C2_AlwaysDeregisters ==
    \A i \in Sessions : sessions[i].pc = "ended" => ~sessions[i].registered

\* C9: (1) whenever the set is empty the loop stops: no task stays
\* registered unless a symbol is subscribed again; (2) a loop task leaves a
\* cycle only by completing it (gather, then sleep) and ends only at the
\* emptiness check; (3) a subscribe that adds a symbol while no loop is
\* registered registers a new loop task, and (4) that symbol is then polled
\* unless it is unsubscribed first
C9_DrainRestart ==
    /\ (poller.symbols_to_poll = {})
          ~> (poller.polling_task = None \/ poller.symbols_to_poll # {})
    /\ [][\A t \in Tasks :
            /\ (poller.tasks[t].pc = "gather" /\ poller'.tasks[t].pc # "gather")
                  => poller'.tasks[t].pc = "sleep"
            /\ (TaskLive(poller, t) /\ poller'.tasks[t].pc = "done")
                  => ( /\ poller.tasks[t].pc \in {"created", "sleep"}
                       /\ poller.symbols_to_poll = {}
                       /\ poller'.polling_task = None )]_vars
    /\ [][(poller.polling_task = None
             /\ poller'.symbols_to_poll # poller.symbols_to_poll
             /\ poller.symbols_to_poll \subseteq poller'.symbols_to_poll)
          => (poller'.polling_task # None
                /\ poller'.tasks[poller'.polling_task].pc = "created")]_vars
    /\ \A s \in Symbols :
          (s \in poller.symbols_to_poll /\ raceSub = [symbol |-> s, at |-> "none"])
             ~> (s \notin poller.symbols_to_poll \/ polled[s])

\* a symbol subscribed after the loop had stopped is polled by the new loop,
\* which is publishing its candle
C9_Witness ==
    \E s \in Symbols, t \in Tasks :
        /\ raceSub = [symbol |-> s, at |-> "none"]
        /\ polled[s] /\ poller.tasks[t].polls[s] = "pub"

\* C10: a symbol added to the set, at whatever point of the poll cycle, is
\* polled by a later cycle unless it leaves the set first
C10_SubscribeNotLost ==
    \A s \in Symbols :
        (s \in poller.symbols_to_poll)
           ~> (s \notin poller.symbols_to_poll \/ polled[s])

\* a symbol subscribed into a set that an unsubscribe had emptied while the
\* loop was in its sleep has been polled by the next cycle
C10_Witness ==
    \E s \in Symbols, t \in Tasks :
        /\ raceSub = [symbol |-> s, at |-> "sleep"]
        /\ polled[s] /\ poller.tasks[t].polls[s] = "pub"

----------------------------------------------------------------------------
(* Claims about the historical resolver *)

\* the call ran under preference auto and its intraday fetch failed with an
\* upstream HTTP error
AutoUpstreamFailure ==
    /\ call.pc = "done"
    /\ call.provider_norm = "auto"
    /\ Len(call.fetched) >= 1
    /\ call.fetched[1] = [p |-> "finnhub", r |-> "http_error"]

\* the fallback fetch of the call was made and returned candles
FallbackSucceeded ==
    /\ AutoUpstreamFailure
    /\ Len(call.fetched) = 2
    /\ call.fetched[2].p = "yahoo" /\ call.fetched[2].r = "ok"

\* the fingerprint of the call with the given provider in its provider field
FingerprintOf(provider) == fingerprint([call EXCEPT !.provider_to_use = provider])

\* C3: under auto, after an upstream failure of the intraday fetch, resolve
\* makes one fallback fetch to the bulk provider and no more; when that
\* fetch succeeds resolve returns its candles; an upstream failure is
\* reported only when the fallback failed too, with both messages combined
C3_FallbackOnce ==
    AutoUpstreamFailure =>
        /\ Len(call.fetched) <= 2
        /\ (Len(call.checked) = 2 /\ call.checked[2].ok) => Len(call.fetched) = 2
        /\ FallbackSucceeded =>
              call.out = Returned(augment(call.raw, call.indicators))
        /\ call.out.kind # "ok" =>
              /\ ~(Len(call.fetched) = 2 /\ call.fetched[2].r \in {"ok", "empty"})
              /\ call.out.msg = "finnhub_http+yahoo_fallback_failed"

\* C4: an auto request that fell back to the bulk provider has stored its
\* result under the bulk provider's fingerprint and nothing under the
\* intraday provider's
C4_FallbackFingerprint ==
    FallbackSucceeded =>
        /\ call.wrote = {FingerprintOf("yahoo")}
        /\ redis_client =>
              \E e \in cache : e.key = cache_key(FingerprintOf("yahoo"))

\* with the store available, a rate-limit check of the call was rejected
RateLimitRejected ==
    /\ redis_client
    /\ call.pc = "done"
    /\ \E k \in 1..Len(call.checked) : ~call.checked[k].ok

\* C5: a rate-limit rejection, of the selected or of the fallback provider,
\* ends the call with the distinct RateLimited outcome, which the boundary
\* answers with status 429; nothing is checked or fetched after it
C5_RateLimitedIs429 ==
    RateLimitRejected =>
        /\ call.out.kind = "RateLimitError"
        /\ candles_history(call.out) = 429
        /\ ~call.checked[Len(call.checked)].ok
        /\ \A k \in 1..(Len(call.checked) - 1) : call.checked[k].ok
        /\ Len(call.fetched) < Len(call.checked)

----------------------------------------------------------------------------
(* Claims about the rate limiter *)

\* the timestamps of a provider's log inside the window that ends now
InWindow(p) == {x \in rl[p] : x > now - RATE_LIMIT_WINDOW_MS}

\* C6: with the store available, a check is accepted while fewer than
\* RATE_LIMIT_PER_MINUTE accepted checks lie in its trailing window and is
\* rejected once that many do; when no check is in flight the log holds at
\* most RATE_LIMIT_PER_MINUTE timestamps of the window
C6_WindowLimit ==
    redis_client =>
        /\ \A k \in Checkers :
              /\ checks[k].out = "ok" => checks[k].prior < RATE_LIMIT_PER_MINUTE
              /\ (checks[k].pc = "revert" \/ checks[k].out = "limited")
                    => checks[k].prior >= RATE_LIMIT_PER_MINUTE
        /\ NoCheckInFlight =>
              \A p \in Providers : Cardinality(InWindow(p)) <= RATE_LIMIT_PER_MINUTE

\* C7: the revert of a rejected check removes the timestamp that check
\* added to the log, and nothing else
C7_RejectedLeavesLog ==
    [][\A k \in Checkers :
          (checks[k].pc = "revert" /\ checks'[k].pc = "idle")
          => /\ checks[k].added
             /\ rl' = [rl EXCEPT ![checks[k].provider] = @ \ {checks[k].now_ms}]]_vars

\* C8: count and revert are atomic: no pipeline runs while the timestamp of
\* a check that is being rejected is still in the window it counts, and a
\* check is rejected only with at least RATE_LIMIT_PER_MINUTE accepted
\* checks in its window
C8_AtomicCountRevert ==
    [][\A k \in Checkers :
          (checks[k].pc = "exec" /\ checks'[k].pc # "exec")
          => /\ ~\E j \in Checkers \ {k} :
                    /\ checks[j].pc = "revert" /\ checks[j].added
                    /\ checks[j].provider = checks[k].provider
                    /\ checks[j].now_ms \in rl'[checks[k].provider]
             /\ checks'[k].pc = "revert"
                   => checks'[k].prior >= RATE_LIMIT_PER_MINUTE]_vars

----------------------------------------------------------------------------
(* Claims about one poll of a symbol *)

\* the latest candle of a fetch is new: last_ts is unset or latest.t >= last_ts
IsNew(s, r) == poller.last_ts[s] = NoTs \/ r.t >= poller.last_ts[s]

PollError(t, s) ==
    \/ PollFetch(t, s, [kind |-> "error", t |-> NoTs])
    \/ PollPublish(t, s, FALSE)

\* C12: an error while polling a symbol removes that symbol alone from the
\* set and leaves the loop in its cycle with every other poll of the cycle
\* as it was; a pending poll of a cycle is given up only when the task is
\* cancelled by a stop; a loop task ends only at the emptiness check with an
\* empty set, or cancelled by an explicit stop
C12_ErrorIsolated ==
    [][\A t \in Tasks :
          /\ \A s \in Symbols :
                PollError(t, s) =>
                    /\ poller'.symbols_to_poll = poller.symbols_to_poll \ {s}
                    /\ poller'.tasks[t].pc = "gather"
                    /\ poller'.polling_task = poller.polling_task
                    /\ \A u \in Symbols \ {s} :
                          /\ poller'.tasks[t].polls[u] = poller.tasks[t].polls[u]
                          /\ poller'.last_ts[u] = poller.last_ts[u]
          /\ \A s \in Symbols :
                (poller.tasks[t].polls[s] \in {"fetch", "pub"}
                    /\ poller'.tasks[t].polls[s] # poller.tasks[t].polls[s])
                => \/ \E r \in FetchResults : PollFetch(t, s, r)
                   \/ \E ok \in BOOLEAN : PollPublish(t, s, ok)
                   \/ StopPolling
          /\ (TaskLive(poller, t) /\ ~TaskLive(poller', t))
                => \/ /\ LoopCheck(t)
                      /\ poller.symbols_to_poll = {}
                      /\ poller'.tasks[t].pc = "done"
                   \/ /\ StopPolling
                      /\ poller.polling_task = t
                      /\ poller'.tasks[t].pc = "cancelling"]_vars

\* two sessions listen on different symbols; the poll of one symbol failed
\* and removed it from the set, and the same cycle is publishing the candle
\* of the other
C12_Witness ==
    \E t \in Tasks, s \in Symbols, u \in Symbols :
        /\ s # u
        /\ \E i \in Sessions : sessions[i].pc = "listening" /\ sessions[i].symbol = s
        /\ \E i \in Sessions : sessions[i].pc = "listening" /\ sessions[i].symbol = u
        /\ s \notin poller.symbols_to_poll
        /\ u \in poller.symbols_to_poll
        /\ poller.polling_task = t
        /\ poller.tasks[t].pc = "gather"
        /\ poller.tasks[t].polls[s] = "none"
        /\ poller.tasks[t].polls[u] = "pub"

----------------------------------------------------------------------------
(* Claims about the forwarding loop *)

\* C13: everything a session has written to its connection is a published
\* message of the session's own upper-cased symbol, unchanged, and the
\* messages were written in the order they were published
C13_ForwardsOwnSymbol ==
    \A i \in Sessions :
        /\ streams[i].symbol \in Symbols
        /\ \A k \in 1..Len(streams[i].sent) :
              /\ streams[i].sent[k].idx \in 1..Len(published)
              /\ streams[i].sent[k].data = published[streams[i].sent[k].idx]
              /\ streams[i].sent[k].data.symbol = streams[i].symbol
        /\ \A k \in 1..(Len(streams[i].sent) - 1) :
              streams[i].sent[k].idx < streams[i].sent[k + 1].idx

\* a session opened in lower case has seen messages of two symbols go by and
\* has forwarded two of its own, with one of the other symbol between them
C13_Witness ==
    \E i \in Sessions :
        /\ Len(published) = 3
        /\ published[2].symbol # streams[i].symbol
        /\ Len(streams[i].sent) = 2
        /\ streams[i].sent[1].idx = 1
        /\ streams[i].sent[2].idx = 3

----------------------------------------------------------------------------
(* Claims about guardrails and provider selection *)

\* a call has been entered with from_ts < to_ts
Entered == call.pc # "idle" /\ call.from_ts < call.to_ts

\* C14: at resolution "1" with preference auto or the bulk provider, the
\* call fails with the range-too-large error exactly when to_ts - from_ts
\* exceeds 30 days
C14_ThirtyDayGuardrail ==
    (Entered /\ call.resolution = "1" /\ call.provider_norm \in {"auto", "yahoo"})
        => ( (call.out = Raised("ValueError", "range_30d"))
               <=> (call.to_ts - call.from_ts > THIRTY_DAYS_SECONDS) )

\* a 1-minute request of exactly 30 days to the bulk provider has passed the
\* guardrail
C14_Witness ==
    /\ call.pc = "cache_get"
    /\ call.resolution = "1" /\ call.provider_norm = "yahoo"
    /\ call.to_ts - call.from_ts = THIRTY_DAYS_SECONDS

\* C15: a call whose preference is auto or the intraday provider and whose
\* range exceeds 365 days fails with the validation error of the 1-year
\* ceiling, whatever the resolution (under auto at resolution "1" the 30-day
\* guardrail, which such a range exceeds too, may answer first), and no
\* fetch of the intraday provider is ever made for a range of more than 365
\* days
C15_OneYearCeiling ==
    /\ (Entered /\ call.provider_norm \in {"auto", "finnhub"}
            /\ call.to_ts - call.from_ts > ONE_YEAR_SECONDS)
          => \/ call.out = Raised("ValueError", "range_1y")
             \/ /\ call.resolution = "1" /\ call.provider_norm = "auto"
                /\ call.out = Raised("ValueError", "range_30d")
    /\ \A k \in 1..Len(call.fetched) :
          call.fetched[k].p = "finnhub"
              => call.to_ts - call.from_ts <= ONE_YEAR_SECONDS

\* C16: the provider a call goes on with is determined by the preference
\* in lower case (an empty preference counting as auto), the resolution and
\* the range: under auto the intraday provider exactly when the resolution
\* is one of 1, 5, 15, 30, 60 and the range is at most 365 days, otherwise
\* the bulk provider; an explicit provider name is used as given; any other
\* preference ends the call with the invalid-provider error
C16_ProviderSelection ==
    (Entered /\ call.out.msg \notin {"range_30d", "range_1y"}) =>
        /\ call.provider_norm = lower(or_auto(call.provider))
        /\ call.provider_norm = "auto" =>
              /\ call.pc = "cache_get"
              /\ (call.provider_to_use = "finnhub")
                    <=> ( /\ call.resolution \in {"1", "5", "15", "30", "60"}
                          /\ call.to_ts - call.from_ts <= ONE_YEAR_SECONDS )
              /\ call.provider_to_use \in {"finnhub", "yahoo"}
        /\ call.provider_norm \in {"finnhub", "yahoo"} =>
              /\ call.pc = "cache_get"
              /\ call.provider_to_use = call.provider_norm
        /\ call.provider_norm \notin {"auto", "finnhub", "yahoo"} =>
              call.out = Raised("ValueError", "invalid_provider")

\* C16 as stated, on the preference as it was passed: every value other
\* than auto and the two provider names, in whatever letter case, is a
\* validation error
C16_OtherValueIsError ==
    (Entered /\ call.out.msg \notin {"range_30d", "range_1y"}
        /\ lower(call.provider) \notin {"auto", "finnhub", "yahoo"})
    => call.out = Raised("ValueError", "invalid_provider")

\* an auto request at resolution 60 over exactly 365 days goes to the
\* intraday provider
C16_Witness ==
    /\ call.pc = "cache_get"
    /\ call.provider_norm = "auto" /\ call.resolution = "60"
    /\ call.to_ts - call.from_ts = ONE_YEAR_SECONDS
    /\ call.provider_to_use = "finnhub"

----------------------------------------------------------------------------
(* Claims about the result cache in resolve *)

\* the call follows a call with the same normalised arguments that returned
\* a result, and the TTL of anything that call stored has not run out
RepeatsWithinTTL ==
    /\ call.prev.known
    /\ call.prev.out.kind = "ok"
    /\ now < call.prev.at + CACHE_TTL_SECONDS

\* C17: the second of two consecutive calls with identical fingerprints
\* within the TTL returns what the first returned, indicator columns
\* included, and the two calls make at most one provider fetch in total
C17_CacheIdempotent ==
    [][RepeatsWithinTTL =>
          /\ (call.pc # "done" /\ call'.pc = "done") => call'.out = call.prev.out
          /\ Len(call'.fetched) > Len(call.fetched)
                => call.prev.nfetch + Len(call'.fetched) <= 1]_vars

\* C18: the cache lookup that finds an entry ends the call with the cached
\* sequence: the call has made no rate-limit check and no fetch and makes
\* none after it, and no provider's rate-limit window has changed since the
\* call was entered
C18_HitReturnsImmediately ==
    [][/\ (call.pc = "cache_get" /\ call' # call
               /\ cache_get(cache, fingerprint(call), now) # {})
            => /\ call'.pc = "done" /\ call'.hit
               /\ call'.out.kind = "ok"
               /\ call'.out.val \in cache_get(cache, fingerprint(call), now)
               /\ call'.checked = << >> /\ call'.fetched = << >>
               /\ rl' = rl
       /\ (call.pc = "idle" \/ call.pc = "done") /\ call'.pc = "cache_get"
            => rl' = rl /\ call'.checked = << >> /\ call'.fetched = << >>
       /\ (call.hit /\ call'.hit)
            => rl' = rl /\ call'.checked = << >> /\ call'.fetched = << >>]_vars

\* a call has returned from the cache a sequence that an earlier call stored
C18_Witness ==
    /\ call.pc = "done" /\ call.hit
    /\ call.prev.known /\ call.prev.nfetch = 1
    /\ call.out.kind = "ok" /\ call.out.val.d # 0
    /\ call.checked = << >> /\ call.fetched = << >>


----------------------------------------------------------------------------
(* C19: capacity of the result cache *)

\* the maximum entry count the cache is to respect, scaled down from 500
MaxEntries == 1

\* C19: the result cache never holds more than its maximum entry count.
\* _cache_set is one redis SET with ex=CACHE_TTL_SECONDS: it counts nothing
\* and evicts nothing, so the only thing that removes an entry is its TTL
C19_BoundedCapacity == Cardinality(cache) <= MaxEntries


----------------------------------------------------------------------------
(* C20: an explicit provider preference has no fallback *)

OtherProvider(p) == IF p = "finnhub" THEN "yahoo" ELSE "finnhub"

ExplicitPreference(c) == c.pc # "idle" /\ c.provider_norm \in Providers

\* the call ended and the fetch of its provider failed
ExplicitFailure(c) ==
    /\ ExplicitPreference(c)
    /\ c.pc = "done"
    /\ \E i \in DOMAIN c.fetched : c.fetched[i].r \in {"http_error", "exception"}

\* C20: with an explicit provider preference, an upstream failure of that
\* provider ends the call with the error: the one fetch made is that
\* provider's, every rate-limit check is that provider's, the other
\* provider's window is never touched, and nothing is written to the cache
C20_ExplicitNoFallback ==
    [][/\ ExplicitPreference(call')
            => rl'[OtherProvider(call'.provider_norm)] = rl[OtherProvider(call'.provider_norm)]
       /\ ExplicitFailure(call')
            => /\ Len(call'.fetched) = 1
               /\ call'.fetched[1].p = call'.provider_norm
               /\ \A i \in DOMAIN call'.checked : call'.checked[i].p = call'.provider_norm
               /\ call'.wrote = {}
               /\ call'.out.kind \in {"ValueError", "Exception"}
       /\ (call.pc = "fetch" /\ ExplicitFailure(call'))
            => cache' = cache]_vars

\* an explicit Finnhub call, Redis available, ended by Finnhub's HTTP error
C20_Witness ==
    /\ redis_client
    /\ call.pc = "done" /\ call.provider_norm = "finnhub"
    /\ Len(call.fetched) = 1 /\ call.fetched[1].r = "http_error"
    /\ call.out = Raised("ValueError", "finnhub_http")
    /\ call.wrote = {}


----------------------------------------------------------------------------
(* C21: guardrail and argument errors come first *)

ArgumentErrors == {"range_30d", "range_1y", "invalid_provider"}

EndedInArgumentError(c) ==
    c.pc = "done" /\ c.out.kind = "ValueError" /\ c.out.msg \in ArgumentErrors

\* C21: a call that ends in a guardrail or argument error ended in its entry
\* step, straight from the caller: that step changes neither the cache nor
\* a rate-limit window, and the call has no cache hit, no rate-limit check,
\* no fetch and no cache write on record
C21_ArgumentErrorsFirst ==
    [][(EndedInArgumentError(call') /\ call' # call)
            => /\ call.pc \in {"idle", "done"}
               /\ cache' = cache /\ rl' = rl
               /\ ~call'.hit
               /\ call'.checked = << >> /\ call'.fetched = << >>
               /\ call'.wrote = {}]_vars

\* an invalid provider name rejected while Redis is available, the cache
\* holds an earlier result and a rate-limit window an earlier check
C21_Witness ==
    /\ redis_client /\ cache # {}
    /\ EndedInArgumentError(call) /\ call.out.msg = "invalid_provider"
    /\ \E p \in Providers : rl[p] # {}


----------------------------------------------------------------------------
(* C22: one poll loop *)

LiveTasks(P) == {t \in Tasks : TaskLive(P, t)}

\* C22: at most one _polling_loop task runs loop code at any time, and it is
\* the task registered in _polling_task; a task that was cancelled runs no
\* loop code any more
C22_SingleLoop ==
    /\ Cardinality(LiveTasks(poller)) <= 1
    /\ \A t \in LiveTasks(poller) : poller.polling_task = t

\* a loop polling two symbols, started after an explicit stop whose
\* cancelled task has not finished yet
C22_Witness ==
    /\ Cardinality(poller.symbols_to_poll) = 2
    /\ \E t \in Tasks : poller.tasks[t].pc = "gather"
    /\ \E t \in Tasks : poller.tasks[t].pc = "cancelling"


----------------------------------------------------------------------------
(* C23: IDLE and RUNNING *)

\* a subscribe call is the first statement of a session that opens
SubscribeReturns(i) == sessions[i].pc = "idle" /\ sessions'[i].pc # "idle"

\* C23: a non-empty Subscription Set implies a live poll loop, and every
\* subscribe call returns with a loop running
C23_IdleOrRunning ==
    /\ [](poller.symbols_to_poll # {} => LiveTasks(poller) # {})
    /\ [][\A i \in Sessions : SubscribeReturns(i) => LiveTasks(poller') # {}]_vars


----------------------------------------------------------------------------
(* C24: last_ts and the Subscription Set *)

\* C24: the symbols that have a stored last_ts are a subset of the
\* Subscription Set, and no _poll_symbol goes on to publish a candle for a
\* symbol that is not in the set
C24_LastTsSubscribed ==
    /\ [](\A s \in Symbols :
            poller.last_ts[s] # NoTs => s \in poller.symbols_to_poll)
    /\ [][\A s \in Symbols, t \in Tasks :
            (poller.tasks[t].polls[s] = "fetch" /\ poller'.tasks[t].polls[s] = "pub")
                => s \in poller.symbols_to_poll]_vars


----------------------------------------------------------------------------
(* C25: one log entry per accepted check *)

\* C25: every accepted check whose timestamp lies in the current window has
\* an entry of its own in the provider's log, so the log holds at least as
\* many entries of a timestamp as checks were accepted with it; and the
\* checks accepted within the trailing window never exceed the threshold
C25_OwnLogEntry ==
    \A p \in Providers :
        /\ \A x \in Clock :
              x > now - RATE_LIMIT_WINDOW_MS
                  => accepted[p][x] <= Cardinality(rl[p] \cap {x})
        /\ AcceptedInWindow(accepted[p], now) <= RATE_LIMIT_PER_MINUTE


----------------------------------------------------------------------------
(* C26: the resolver without the shared store *)

\* C26: while redis_client is None every cache read of the resolver is a
\* miss, a cache write leaves the cache as it is, every rate-limit check of
\* a call is rejected and ends the call with RateLimitError, no call makes a
\* provider fetch, and no step changes the cache or a rate-limit window
C26_FailsClosed ==
    /\ [](~redis_client =>
            /\ call.pc # "idle" =>
                  /\ cache_get(cache, fingerprint(call), now) = {}
                  /\ cache_set(cache, fingerprint(call),
                               augment(call.raw, call.indicators), now) = cache
            /\ ~call.hit
            /\ \A k \in DOMAIN call.checked : ~call.checked[k].ok
            /\ call.checked # << >> =>
                  call.pc = "done" /\ call.out.kind = "RateLimitError"
            /\ call.pc \notin {"fetch", "fb_rate_limit", "fb_fetch", "store"}
            /\ call.fetched = << >> /\ call.wrote = {})
    /\ [][~redis_client => (cache' = cache /\ rl' = rl)]_vars

\* a call that passed the guardrails, missed the cache and was rejected by
\* the rate-limit check, all with redis_client None
C26_Witness ==
    /\ ~redis_client
    /\ call.pc = "done" /\ call.out.kind = "RateLimitError"
    /\ Len(call.checked) = 1 /\ ~call.checked[1].ok
    /\ call.fetched = << >>


----------------------------------------------------------------------------
(* C27: the fallback stays inside the bulk provider's 1-minute limit *)

\* the call has issued, or is about to issue, a fetch to Yahoo
FetchesYahoo(c) ==
    \/ \E i \in DOMAIN c.fetched : c.fetched[i].p = "yahoo"
    \/ c.pc = "fb_fetch"
    \/ c.pc = "fetch" /\ c.provider_to_use = "yahoo"

\* C27: under preference auto at resolution "1", every fetch issued to
\* Yahoo, the fallback fetch included, has a range of at most 30 days
C27_FallbackWithinThirtyDays ==
    (call.provider_norm = "auto" /\ call.resolution = "1" /\ FetchesYahoo(call))
        => call.to_ts - call.from_ts <= THIRTY_DAYS_SECONDS

\* an auto request of exactly 30 days at resolution "1" whose Finnhub fetch
\* failed and whose fallback fetch to Yahoo was made
C27_Witness ==
    /\ call.pc = "done"
    /\ call.provider_norm = "auto" /\ call.resolution = "1"
    /\ call.to_ts - call.from_ts = THIRTY_DAYS_SECONDS
    /\ Len(call.fetched) = 2
    /\ call.fetched[1] = [p |-> "finnhub", r |-> "http_error"]
    /\ call.fetched[2].p = "yahoo"

====
